---------------------------- MODULE Spec2Model ----------------------------
(***************************************************************************)
(* Payment lifecycle and evidence consistency of payments-app-api.         *)
(*                                                                         *)
(* The store is the three MongoDB collections of config/database.py.  Each *)
(* HTTP handler of routes/route.py is one action (a request served alone), *)
(* and normalize_and_save of main.py is the batch import.                  *)
(*                                                                         *)
(* Instants are integers; DayLen instants make one UTC calendar day.       *)
(* Money is in hundredths (due_amount 100.00 is 10000) and percentages are *)
(* whole numbers, so round(x, 2) is a rounding to a whole number.          *)
(* An Optional value is <<>> (None) or <<v>>.                              *)
(* An id string is [hex |-> n, upper |-> b]: the 24 hex digits of ObjectId *)
(* number n written in lower or upper case; hex = 0 is a string that is    *)
(* not 24 hex digits.                                                      *)
(***************************************************************************)
EXTENDS Integers, Sequences, FiniteSets

VARIABLES payments,      \* payments_collection: ObjectId -> document
          evidence,      \* evidence_collection: evidence _id -> document
          import_log,    \* import_log_collection: set of file names
          nextId,        \* ObjectIds generated so far for payments, plus 1
          nextEvidence,  \* ObjectIds generated so far for evidence, plus 1
          now,           \* datetime.now(timezone.utc)
          req,           \* the request served by the last step
          resp,          \* its response
          inflight       \* the requests between two of their store operations

vars == <<payments, evidence, import_log, nextId, nextEvidence, now, req, resp, inflight>>
store == <<payments, evidence, import_log>>

MaxIds == 2
MaxEvidence == 3
MaxTime == 2
DayLen == 2
MaxPage == 2
MaxSize == 2
MaxInflight == 2

None == <<>>
Some(x) == <<x>>

Statuses == {"pending", "due_now", "overdue", "completed"}
ContentTypes == {"application/pdf", "image/png", "image/jpeg"}

Day(t) == t \div DayLen

(***************************************************************************)
(* ObjectId(id_str) and str(ObjectId)                                      *)
(***************************************************************************)
IdStrings ==
    {[hex |-> n, upper |-> FALSE] : n \in 0..MaxIds} \cup {[hex |-> 1, upper |-> TRUE]}
IsValidId(id_str) == id_str.hex # 0
ObjectId(id_str) == id_str.hex
Str(oid) == [hex |-> oid, upper |-> FALSE]

(***************************************************************************)
(* round(x, 2) of x = n / q hundredths: to the nearest, ties to even       *)
(***************************************************************************)
Round2(n, q) ==
    LET f == n \div q
        r == n % q
    IN  IF 2 * r > q \/ (2 * r = q /\ f % 2 = 1) THEN f + 1 ELSE f

Or0(o) == IF o = None THEN 0 ELSE o[1]

\* route.py: (payment.discount_percent or 0), (payment.tax_percent or 0)
CreateTotalDue(p) ==
    Round2(p.due_amount * (100 - Or0(p.discount_percent)) * (100 + Or0(p.tax_percent)), 10000)

\* the documents of a collection that match a filter
EvidenceOf(oid) == {e \in DOMAIN evidence : evidence[e].payment_id = Str(oid)}

Init ==
    /\ payments = << >>
    /\ evidence = << >>
    /\ import_log = {}
    /\ nextId = 1
    /\ nextEvidence = 1
    /\ now = 0
    /\ req = [op |-> "idle"]
    /\ resp = [code |-> 0]
    /\ inflight = [slot \in 1..MaxInflight |-> [op |-> "idle"]]

Tick ==
    /\ now < MaxTime
    /\ now' = now + 1
    /\ req' = [op |-> "idle"]
    /\ resp' = [code |-> 0]
    /\ UNCHANGED <<payments, evidence, import_log, nextId, nextEvidence, inflight>>

(***************************************************************************)
(* GET /payments/ : the due-date sweep, then the filtered query            *)
(***************************************************************************)
\* variant: a payment that is already 'due_now' on its due day is made 'overdue'
SweepStatus_Escalating(payment, t) ==
    IF payment.payee_due_date < t THEN "overdue"
    ELSE IF Day(payment.payee_due_date) = Day(t)
         THEN IF payment.payee_payment_status = "due_now" THEN "overdue" ELSE "due_now"
    ELSE payment.payee_payment_status

\* variant: the calendar-day test made before the past-due test
SweepStatus_DayFirst(payment, t) ==
    IF Day(payment.payee_due_date) = Day(t) THEN "due_now"
    ELSE IF payment.payee_due_date < t THEN "overdue"
    ELSE payment.payee_payment_status

\* the status the sweep computes for one payment (new_status)
SweepStatus(payment, t) ==
    IF payment.payee_due_date < t THEN "overdue"
    ELSE IF Day(payment.payee_due_date) = Day(t) THEN "due_now"
    ELSE payment.payee_payment_status

\* the collection after the loop over payments_to_update
SweepDueStatuses(t) ==
    [id \in DOMAIN payments |->
        [payments[id] EXCEPT !.payee_payment_status = SweepStatus(payments[id], t)]]

\* the payments for which the loop calls update_one (new_status differs)
SweepWrites(t) ==
    {id \in DOMAIN payments : SweepStatus(payments[id], t) # payments[id].payee_payment_status}

\* query = {"payee_payment_status": status} when status is given and not empty
Matches(payment, status) ==
    status = None \/ status[1] = "" \/ payment.payee_payment_status = status[1]

\* schemas.py: individual_serial
IndividualSerial(id, payment) ==
    [id |-> Str(id),
     payee_payment_status |-> payment.payee_payment_status,
     payee_due_date |-> payment.payee_due_date,
     discount_percent |-> payment.discount_percent,
     tax_percent |-> payment.tax_percent,
     due_amount |-> payment.due_amount,
     total_due |-> payment.total_due]

\* .sort(sort_by, sort_direction): the orders the cursor can return the ids in;
\* descending for every sort_order but "asc"; documents with equal keys come in
\* any order
SortedOrders(coll, ids, sort_by, sort_order) ==
    {s \in [1..Cardinality(ids) -> ids] :
        /\ \A i, j \in 1..Cardinality(ids) : i # j => s[i] # s[j]
        /\ \A i, j \in 1..Cardinality(ids) :
              i < j => IF sort_order = "asc"
                       THEN coll[s[i]][sort_by] <= coll[s[j]][sort_by]
                       ELSE coll[s[i]][sort_by] >= coll[s[j]][sort_by]}

\* .skip((page - 1) * size).limit(size): a limit of 0 is no limit
SkipLimit(order, page, size) ==
    LET skip == (page - 1) * size
        last == IF size = 0 \/ skip + size > Len(order) THEN Len(order) ELSE skip + size
    IN  SubSeq(order, skip + 1, last)

\* the responses the query on collection coll can give
ListPayments(coll, status, sort_by, sort_order, page, size) ==
    LET found == {id \in DOMAIN coll : Matches(coll[id], status)} IN
    {[code |-> 200,
      total |-> Cardinality(found),
      page |-> page,
      size |-> size,
      data |-> [i \in DOMAIN SkipLimit(order, page, size) |->
                   IndividualSerial(SkipLimit(order, page, size)[i],
                                    coll[SkipLimit(order, page, size)[i]])]] :
        order \in SortedOrders(coll, found, sort_by, sort_order)}

\* variant: the query evaluated before the sweep
GetPayments_QueryFirst(status, sort_by, sort_order, page, size) ==
    /\ payments' = SweepDueStatuses(now)
    /\ req' = [op |-> "list", status |-> status, sort_by |-> sort_by,
               sort_order |-> sort_order, page |-> page, size |-> size]
    /\ resp' \in ListPayments(payments, status, sort_by, sort_order, page, size)
    /\ UNCHANGED <<evidence, import_log, nextId, nextEvidence, now, inflight>>

GetPayments(status, sort_by, sort_order, page, size) ==
    /\ payments' = SweepDueStatuses(now)
    /\ req' = [op |-> "list", status |-> status, sort_by |-> sort_by,
               sort_order |-> sort_order, page |-> page, size |-> size]
    /\ resp' \in ListPayments(payments', status, sort_by, sort_order, page, size)
    /\ UNCHANGED <<evidence, import_log, nextId, nextEvidence, now, inflight>>

(***************************************************************************)
(* PUT /payments/{payment_id}/                                             *)
(***************************************************************************)
\* variant: the evidence lookup left out
CanComplete_Ungated(payment_id) == TRUE

\* evidence_collection.find_one({"payment_id": str(payment_id)}) found a document
CanComplete(payment_id) == EvidenceOf(payment_id) # {}

\* variant: the whole update compared, not its status entry
SetsCompleted_WholeDict(payment_update) ==
    payment_update = [payee_payment_status |-> "completed"]

SetsCompleted(payment_update) ==
    /\ "payee_payment_status" \in DOMAIN payment_update
    /\ payment_update.payee_payment_status = "completed"

\* variant: total_due recomputed when a monetary field is set
SetFields_Recompute(doc, payment_update) ==
    LET set == [f \in DOMAIN doc \cup DOMAIN payment_update |->
                   IF f \in DOMAIN payment_update THEN payment_update[f] ELSE doc[f]]
    IN  IF DOMAIN payment_update \cap {"due_amount", "discount_percent", "tax_percent"} = {}
        THEN set
        ELSE [set EXCEPT !.total_due = CreateTotalDue(set)]

\* {"$set": payment_update} on one document
SetFields(doc, payment_update) ==
    [f \in DOMAIN doc \cup DOMAIN payment_update |->
        IF f \in DOMAIN payment_update THEN payment_update[f] ELSE doc[f]]

\* variant: result.matched_count not looked at
UpdatePayment_NoMatchCheck(id_str, payment_update) ==
    /\ req' = [op |-> "update", payment_id |-> id_str, payment_update |-> payment_update]
    /\ UNCHANGED <<evidence, import_log, nextId, nextEvidence, now, inflight>>
    /\ IF ~IsValidId(id_str)
       THEN /\ resp' = [code |-> 400, detail |-> "Invalid ID format."]
            /\ UNCHANGED payments
       ELSE LET payment_id == ObjectId(id_str) IN
            IF SetsCompleted(payment_update) /\ ~CanComplete(payment_id)
            THEN /\ resp' = [code |-> 400,
                             detail |-> "Cannot mark payment as completed without evidence."]
                 /\ UNCHANGED payments
            ELSE /\ payments' = [id \in DOMAIN payments |->
                                    IF id = payment_id
                                    THEN SetFields(payments[id], payment_update)
                                    ELSE payments[id]]
                 /\ resp' = [code |-> 200, detail |-> "Payment updated successfully."]

UpdatePayment(id_str, payment_update) ==
    /\ req' = [op |-> "update", payment_id |-> id_str, payment_update |-> payment_update]
    /\ UNCHANGED <<evidence, import_log, nextId, nextEvidence, now, inflight>>
    /\ IF ~IsValidId(id_str)
       THEN /\ resp' = [code |-> 400, detail |-> "Invalid ID format."]
            /\ UNCHANGED payments
       ELSE LET payment_id == ObjectId(id_str) IN
            IF SetsCompleted(payment_update) /\ ~CanComplete(payment_id)
            THEN /\ resp' = [code |-> 400,
                             detail |-> "Cannot mark payment as completed without evidence."]
                 /\ UNCHANGED payments
            ELSE IF payment_id \notin DOMAIN payments
            THEN /\ resp' = [code |-> 404, detail |-> "Payment not found."]
                 /\ UNCHANGED payments
            ELSE /\ payments' = [payments EXCEPT
                                    ![payment_id] = SetFields(@, payment_update)]
                 /\ resp' = [code |-> 200, detail |-> "Payment updated successfully."]

(***************************************************************************)
(* DELETE /payments/{payment_id}/                                          *)
(***************************************************************************)
\* variant: delete_one in place of delete_many
CascadeEvidence_One(payment_id) ==
    IF payments[payment_id].payee_payment_status = "completed" /\ EvidenceOf(payment_id) # {}
    THEN {CHOOSE e \in EvidenceOf(payment_id) : \A o \in EvidenceOf(payment_id) : e <= o}
    ELSE {}

\* variant: the cascade made whatever the status
CascadeEvidence_Always(payment_id) == EvidenceOf(payment_id)

\* the documents evidence_collection.delete_many removes for a payment
CascadeEvidence(payment_id) ==
    IF payments[payment_id].payee_payment_status = "completed"
    THEN EvidenceOf(payment_id)
    ELSE {}

DeletePayment(id_str) ==
    /\ req' = [op |-> "delete", payment_id |-> id_str]
    /\ UNCHANGED <<import_log, nextId, nextEvidence, now, inflight>>
    /\ IF ~IsValidId(id_str)
       THEN /\ resp' = [code |-> 400, detail |-> "Invalid ID format."]
            /\ UNCHANGED <<payments, evidence>>
       ELSE LET payment_id == ObjectId(id_str) IN
            IF payment_id \notin DOMAIN payments
            THEN /\ resp' = [code |-> 404, detail |-> "Payment not found."]
                 /\ UNCHANGED <<payments, evidence>>
            ELSE LET gone == CascadeEvidence(payment_id) IN
                 /\ evidence' = [e \in DOMAIN evidence \ gone |-> evidence[e]]
                 /\ payments' = [id \in DOMAIN payments \ {payment_id} |-> payments[id]]
                 /\ resp' = [code |-> 200, detail |-> "Payment deleted successfully.",
                             deleted_evidence_count |-> Cardinality(gone)]

(***************************************************************************)
(* POST /payments/                                                         *)
(***************************************************************************)
OutOfRange(percent) == percent # None /\ (percent[1] < 0 \/ percent[1] > 100)

\* variant: the tax range check left out
ValidateNewPayment_NoTaxCheck(payment, t) ==
    IF payment.payee_payment_status # "pending"
    THEN "New payments must have a status of 'pending'."
    ELSE IF payment.payee_due_date < t
    THEN "The due date cannot be in the past."
    ELSE IF OutOfRange(payment.discount_percent)
    THEN "Discount percentage must be between 0 and 100."
    ELSE ""

\* the detail of the HTTPException(400) raised inside the try block, "" if none
ValidateNewPayment(payment, t) ==
    IF payment.payee_payment_status # "pending"
    THEN "New payments must have a status of 'pending'."
    ELSE IF payment.payee_due_date < t
    THEN "The due date cannot be in the past."
    ELSE IF OutOfRange(payment.discount_percent)
    THEN "Discount percentage must be between 0 and 100."
    ELSE IF OutOfRange(payment.tax_percent)
    THEN "Tax percentage must be between 0 and 100."
    ELSE ""

\* payment.dict() after payment.total_due is set
Document(payment, total_due) ==
    [payee_payment_status |-> payment.payee_payment_status,
     payee_due_date |-> payment.payee_due_date,
     due_amount |-> payment.due_amount,
     discount_percent |-> payment.discount_percent,
     tax_percent |-> payment.tax_percent,
     total_due |-> total_due]

InsertOne(doc) == [id \in DOMAIN payments \cup {nextId} |->
                      IF id = nextId THEN doc ELSE payments[id]]

CreatePayment(payment) ==
    /\ req' = [op |-> "create", payment |-> payment]
    /\ UNCHANGED <<evidence, import_log, nextEvidence, now, inflight>>
    /\ LET raised == ValidateNewPayment(payment, now) IN
       IF raised # ""
       THEN \* except Exception as e: the HTTPException(400) is caught and replaced
            /\ resp' = [code |-> 500,
                        detail |-> "An error occurred while creating the payment", cause |-> raised]
            /\ UNCHANGED <<payments, nextId>>
       ELSE /\ nextId <= MaxIds
            /\ payments' = InsertOne(Document(payment, CreateTotalDue(payment)))
            /\ nextId' = nextId + 1
            /\ resp' = [code |-> 200, detail |-> "Payment created successfully.",
                        payment_id |-> Str(nextId)]

(***************************************************************************)
(* POST /payments/{payment_id}/upload-evidence/                            *)
(***************************************************************************)
\* evidence_collection.insert_one({"payment_id": str(payment_id), ...})
InsertEvidence(payment_id) ==
    [e \in DOMAIN evidence \cup {nextEvidence} |->
        IF e = nextEvidence THEN [payment_id |-> Str(payment_id)] ELSE evidence[e]]

\* variant: the status forced only from 'pending'
MarkCompleted_FromPending(payment_id) ==
    IF payments[payment_id].payee_payment_status = "pending"
    THEN [payments EXCEPT ![payment_id].payee_payment_status = "completed"]
    ELSE payments

\* update_one({"_id": payment_id}, {"$set": {"payee_payment_status": "completed"}})
MarkCompleted(payment_id) ==
    [payments EXCEPT ![payment_id].payee_payment_status = "completed"]

UploadEvidence(id_str, content_type) ==
    /\ req' = [op |-> "upload", payment_id |-> id_str, content_type |-> content_type]
    /\ UNCHANGED <<import_log, nextId, now, inflight>>
    /\ IF content_type \notin ContentTypes
       THEN /\ resp' = [code |-> 400, detail |-> "Invalid file type."]
            /\ UNCHANGED <<payments, evidence, nextEvidence>>
       ELSE IF ~IsValidId(id_str)
       THEN /\ resp' = [code |-> 400, detail |-> "Invalid ID format."]
            /\ UNCHANGED <<payments, evidence, nextEvidence>>
       ELSE LET payment_id == ObjectId(id_str) IN
            IF payment_id \notin DOMAIN payments
            THEN /\ resp' = [code |-> 404, detail |-> "Payment not found."]
                 /\ UNCHANGED <<payments, evidence, nextEvidence>>
            ELSE /\ nextEvidence <= MaxEvidence
                 /\ evidence' = InsertEvidence(payment_id)
                 /\ nextEvidence' = nextEvidence + 1
                 /\ payments' = MarkCompleted(payment_id)
                 /\ resp' = [code |-> 200, evidence_id |-> nextEvidence]

(***************************************************************************)
(* main.py: normalize_and_save(csv_file_path), rows the decrypted CSV      *)
(***************************************************************************)
\* variant: the rows not validated
RowInvalid_Never(record) == FALSE

\* Payment(**record) raises: payee_payment_status does not match the pattern
RowInvalid(record) == record.payee_payment_status \notin Statuses

\* payment.discount_percent / 100 or payment.tax_percent / 100 raises on None
RowTotalRaises(record) == record.discount_percent = None \/ record.tax_percent = None

\* variant: the tax factor left out
ImportTotalDue_NoTax(p) ==
    Round2(p.due_amount * (100 - p.discount_percent[1]), 100)

\* main.py: no "or 0", the percentages are used as they are
ImportTotalDue(p) ==
    Round2(p.due_amount * (100 - p.discount_percent[1]) * (100 + p.tax_percent[1]), 10000)

\* payments_collection.insert_many(payments)
InsertMany(docs) ==
    [id \in DOMAIN payments \cup (nextId..(nextId + Len(docs) - 1)) |->
        IF id \in DOMAIN payments THEN payments[id] ELSE docs[id - nextId + 1]]

NormalizeAndSave(csv_file_path, rows) ==
    /\ req' = [op |-> "import", csv_file_path |-> csv_file_path, rows |-> rows]
    /\ UNCHANGED <<evidence, nextEvidence, now, inflight>>
    /\ IF csv_file_path \in import_log
       THEN /\ resp' = [code |-> 0, detail |-> "already processed"]
            /\ UNCHANGED <<payments, import_log, nextId>>
       ELSE IF \/ \E i \in 1..Len(rows) : RowInvalid(rows[i]) \/ RowTotalRaises(rows[i])
               \/ rows = << >>
       THEN /\ resp' = [code |-> 400, detail |-> "Error processing file"]
            /\ UNCHANGED <<payments, import_log, nextId>>
       ELSE /\ nextId + Len(rows) - 1 <= MaxIds
            /\ payments' = InsertMany([i \in 1..Len(rows) |->
                                          Document(rows[i], ImportTotalDue(rows[i]))])
            /\ nextId' = nextId + Len(rows)
            /\ import_log' = import_log \cup {csv_file_path}
            /\ resp' = [code |-> 200, detail |-> "CSV data uploaded successfully!"]

(***************************************************************************)
(* Requests                                                                *)
(***************************************************************************)
\* a well-formed request, and the same with one field changed
BasePayment(due) ==
    [payee_payment_status |-> "pending", payee_due_date |-> due, due_amount |-> 10000,
     discount_percent |-> None, tax_percent |-> Some(5)]

CreateRequests ==
    {BasePayment(due) : due \in 0..MaxTime}
        \cup {[BasePayment(MaxTime) EXCEPT !.payee_payment_status = "completed"],
              [BasePayment(MaxTime) EXCEPT !.discount_percent = Some(101)],
              [BasePayment(MaxTime) EXCEPT !.tax_percent = Some(-1)]}

Updates ==
    {[payee_payment_status |-> s] : s \in {"pending", "completed", "refunded"}}
        \cup {[payee_payment_status |-> "completed", due_amount |-> 250]}

Next ==
    \/ Tick
    \/ \E status \in {None, Some("overdue")} :
          GetPayments(status, "payee_due_date", "asc", 1, 20)
    \/ \E payment \in CreateRequests : CreatePayment(payment)
    \/ \E id_str \in IdStrings, payment_update \in Updates : UpdatePayment(id_str, payment_update)
    \/ \E id_str \in IdStrings : DeletePayment(id_str)
    \/ \E id_str \in IdStrings, content_type \in {"application/pdf", "text/plain"} :
          UploadEvidence(id_str, content_type)

Spec == Init /\ [][Next]_vars

(***************************************************************************)
(* Properties                                                              *)
(***************************************************************************)
ReqId == ObjectId(req.payment_id)
ReqIdNext == ObjectId(req'.payment_id)
HasEvidence(oid) == \E e \in DOMAIN evidence : evidence[e].payment_id = Str(oid)
StatusOf(id) == payments[id].payee_payment_status

\* C1: after any sequence of whole API operations from an empty store, every
\* stored payment whose status is 'completed' has at least one evidence record
\* whose payment_id is that payment's id.
C1_CompletedHasEvidence ==
    \A id \in DOMAIN payments : StatusOf(id) = "completed" => HasEvidence(id)

\* a payment completed through update_payment, its evidence found by the gate
C1_Witness ==
    /\ req.op = "update"
    /\ resp.code = 200
    /\ req.payment_update.payee_payment_status = "completed"
    /\ StatusOf(ReqId) = "completed"

\* C2: the sweep run by the listing never changes the stored status of a
\* payment whose status is 'completed', whatever its due date.
C2_SweepKeepsCompleted ==
    [][req'.op = "list" =>
          \A id \in DOMAIN payments :
              StatusOf(id) = "completed" => payments'[id].payee_payment_status = "completed"]_vars

\* C3: an update that sets the status to 'completed' on an existing payment
\* without evidence fails with 400 and leaves the payment and the rest of the
\* store unchanged.
C3_UngatedCompletionRejected ==
    [][(/\ req'.op = "update"
        /\ "payee_payment_status" \in DOMAIN req'.payment_update
        /\ req'.payment_update.payee_payment_status = "completed"
        /\ IsValidId(req'.payment_id)
        /\ ReqIdNext \in DOMAIN payments
        /\ ~HasEvidence(ReqIdNext))
       => (resp'.code = 400 /\ store' = store)]_vars

\* the rejected update: more than one field, on a stored payment without evidence
C3_Witness ==
    /\ req.op = "update"
    /\ req.payment_update = [payee_payment_status |-> "completed", due_amount |-> 250]
    /\ IsValidId(req.payment_id)
    /\ ReqId \in DOMAIN payments
    /\ ~HasEvidence(ReqId)
    /\ resp.code = 400

\* C4: an upload with an accepted content type on an existing payment, whatever
\* its status, inserts exactly one evidence record, with that payment's id, and
\* leaves the payment 'completed'.
C4_UploadInsertsAndCompletes ==
    [][(/\ req'.op = "upload"
        /\ req'.content_type \in {"application/pdf", "image/png", "image/jpeg"}
        /\ IsValidId(req'.payment_id)
        /\ ReqIdNext \in DOMAIN payments)
       => LET added == DOMAIN evidence' \ DOMAIN evidence IN
          /\ Cardinality(added) = 1
          /\ \A e \in added : evidence'[e].payment_id = Str(ReqIdNext)
          /\ \A e \in DOMAIN evidence : e \in DOMAIN evidence' /\ evidence'[e] = evidence[e]
          /\ ReqIdNext \in DOMAIN payments'
          /\ payments'[ReqIdNext].payee_payment_status = "completed"
          /\ resp'.code = 200]_vars

\* an upload that succeeded on a payment which already had evidence
C4_Witness ==
    /\ req.op = "upload"
    /\ resp.code = 200
    /\ StatusOf(ReqId) = "completed"
    /\ Cardinality(EvidenceOf(ReqId)) >= 2

\* C5: deleting an existing 'completed' payment removes every evidence record
\* that references it, reports their number, and removes the payment.
C5_DeleteCompletedCascades ==
    [][(/\ req'.op = "delete"
        /\ IsValidId(req'.payment_id)
        /\ ReqIdNext \in DOMAIN payments
        /\ StatusOf(ReqIdNext) = "completed")
       => /\ \A e \in DOMAIN evidence' : evidence'[e].payment_id # Str(ReqIdNext)
          /\ resp'.code = 200
          /\ resp'.deleted_evidence_count =
                Cardinality({e \in DOMAIN evidence : evidence[e].payment_id = Str(ReqIdNext)})
          /\ ReqIdNext \notin DOMAIN payments']_vars

\* a delete that removed three evidence records
C5_Witness ==
    /\ req.op = "delete"
    /\ resp.code = 200
    /\ resp.deleted_evidence_count = 3
    /\ ReqId \notin DOMAIN payments
    /\ ~HasEvidence(ReqId)

\* C6: every evidence record in the store references a payment that still exists.
C6_NoOrphanEvidence ==
    \A e \in DOMAIN evidence :
        \E id \in DOMAIN payments : evidence[e].payment_id = Str(id)

\* C7: a creation whose status is not 'pending', or whose due date is before
\* now, or whose discount or tax is present and outside [0,100], inserts no
\* payment and leaves the store unchanged.
C7_RejectedCreateLeavesStore ==
    [][(/\ req'.op = "create"
        /\ LET p == req'.payment IN
           \/ p.payee_payment_status # "pending"
           \/ p.payee_due_date < now
           \/ (p.discount_percent # None
                 /\ (p.discount_percent[1] < 0 \/ p.discount_percent[1] > 100))
           \/ (p.tax_percent # None
                 /\ (p.tax_percent[1] < 0 \/ p.tax_percent[1] > 100)))
       => (store' = store /\ nextId' = nextId /\ resp'.code # 200)]_vars

\* a creation rejected for its tax, with a payment already stored
C7_Witness ==
    /\ req.op = "create"
    /\ req.payment.tax_percent = Some(-1)
    /\ resp.code # 200
    /\ DOMAIN payments # {}

\* C8: a creation rejected by a business rule is answered with the validation
\* error (400), not with an internal server failure.
C8_RejectedCreateIsValidationError ==
    (req.op = "create" /\ req.payment.payee_payment_status # "pending") => resp.code = 400

\* C10: the sweep sets the status of every payment that is not 'completed' to
\* 'overdue' if due_date < now, else to 'due_now' if due_date is on the UTC day
\* of now, else leaves it.
C10_SweepDecisionTable ==
    [][req'.op = "list" =>
          \A id \in DOMAIN payments :
              StatusOf(id) # "completed" =>
                  /\ id \in DOMAIN payments'
                  /\ payments'[id].payee_payment_status =
                        (IF payments[id].payee_due_date < now THEN "overdue"
                         ELSE IF payments[id].payee_due_date \div DayLen = now \div DayLen
                              THEN "due_now"
                         ELSE StatusOf(id))]_vars

\* after a listing: one payment past due and 'overdue', one due on a later day
\* and still 'pending'
C10_Witness ==
    /\ req.op = "list"
    /\ \E id \in DOMAIN payments :
          payments[id].payee_due_date < now /\ StatusOf(id) = "overdue"
    /\ \E id \in DOMAIN payments :
          payments[id].payee_due_date \div DayLen > now \div DayLen /\ StatusOf(id) = "pending"

\* C11: the sweep is idempotent: a second listing at the same now, with nothing
\* in between, finds no status to write and leaves the store as the first left it.
C11_SweepIdempotent ==
    [][(req.op = "list" /\ req'.op = "list" /\ now' = now)
       => /\ {id \in DOMAIN payments :
                 payments[id].payee_payment_status #
                    (IF payments[id].payee_due_date < now THEN "overdue"
                     ELSE IF payments[id].payee_due_date \div DayLen = now \div DayLen
                          THEN "due_now"
                     ELSE payments[id].payee_payment_status)} = {}
          /\ SweepWrites(now) = {}
          /\ store' = store]_vars

\* after a listing whose sweep rewrote statuses: one payment 'overdue', one
\* 'due_now', and a further listing would write nothing
C11_Witness ==
    /\ req.op = "list"
    /\ \E id \in DOMAIN payments : StatusOf(id) = "overdue"
    /\ \E id \in DOMAIN payments : StatusOf(id) = "due_now"
    /\ SweepWrites(now) = {}

\* C13: deleting a payment that is not 'completed' reports 0 deleted evidence
\* records and removes no evidence record, of this or of any other payment.
C13_DeleteUncompletedKeepsEvidence ==
    [][(/\ req'.op = "delete"
        /\ IsValidId(req'.payment_id)
        /\ ReqIdNext \in DOMAIN payments
        /\ StatusOf(ReqIdNext) # "completed")
       => /\ resp'.code = 200
          /\ resp'.deleted_evidence_count = 0
          /\ evidence' = evidence
          /\ ReqIdNext \notin DOMAIN payments']_vars

\* a payment deleted while not 'completed', with evidence of another payment
\* and of its own in the store
C13_Witness ==
    /\ req.op = "delete"
    /\ resp.code = 200
    /\ resp.deleted_evidence_count = 0
    /\ ReqId \notin DOMAIN payments
    /\ HasEvidence(ReqId)
    /\ \E id \in DOMAIN payments : HasEvidence(id)

\* C14 as claimed: an update addressed to an identifier that resolves to no
\* stored payment fails with 404, whatever the update.
C14_UnknownIdIsNotFound ==
    (req.op = "update" /\ IsValidId(req.payment_id) /\ ReqId \notin DOMAIN payments)
        => resp.code = 404

\* C14 as amended: such an update creates and changes no record; it fails with
\* 404, except that an update setting the status to 'completed' while no
\* evidence references the identifier fails with 400.
C14_UnknownIdChangesNothing ==
    [][(/\ req'.op = "update"
        /\ IsValidId(req'.payment_id)
        /\ ReqIdNext \notin DOMAIN payments)
       => /\ store' = store
          /\ resp'.code =
                (IF /\ "payee_payment_status" \in DOMAIN req'.payment_update
                    /\ req'.payment_update.payee_payment_status = "completed"
                    /\ ~HasEvidence(ReqIdNext)
                 THEN 400 ELSE 404)]_vars

\* an update to 'completed' of a deleted payment whose evidence is still stored
C14_Witness ==
    /\ req.op = "update"
    /\ IsValidId(req.payment_id)
    /\ ReqId \notin DOMAIN payments
    /\ req.payment_update.payee_payment_status = "completed"
    /\ HasEvidence(ReqId)
    /\ resp.code = 404

\* C15: the status of every stored payment is one of 'pending', 'due_now',
\* 'overdue', 'completed'.
C15_StatusInEnum ==
    \A id \in DOMAIN payments :
        StatusOf(id) \in {"pending", "due_now", "overdue", "completed"}

\* C18: a successful update changes, on the addressed payment, the fields named
\* in the update and nothing else (total_due stays when due_amount is set), and
\* changes no other payment and no evidence record.
C18_UpdateFrame ==
    [][(req'.op = "update" /\ resp'.code = 200)
       => LET old == payments[ReqIdNext]
              new == payments'[ReqIdNext]
              upd == req'.payment_update
          IN  /\ DOMAIN payments' = DOMAIN payments
              /\ DOMAIN new = DOMAIN old \cup DOMAIN upd
              /\ \A f \in DOMAIN upd : new[f] = upd[f]
              /\ \A f \in DOMAIN old \ DOMAIN upd : new[f] = old[f]
              /\ \A id \in DOMAIN payments \ {ReqIdNext} : payments'[id] = payments[id]
              /\ evidence' = evidence
              /\ import_log' = import_log]_vars

\* an update that set due_amount, total_due still the value computed at creation
C18_Witness ==
    /\ req.op = "update"
    /\ resp.code = 200
    /\ "due_amount" \in DOMAIN req.payment_update
    /\ payments[ReqId].due_amount = 250
    /\ payments[ReqId].total_due = 10500

(***************************************************************************)
(* Listings, with filter, sort and page varied                             *)
(***************************************************************************)
NextList ==
    \/ Tick
    \/ \E due \in 0..MaxTime : CreatePayment(BasePayment(due))
    \/ \E id \in 1..MaxIds : UploadEvidence(Str(id), "application/pdf")
    \/ \E status \in {None, Some("overdue"), Some("pending")},
          sort_by \in {"payee_due_date", "total_due"},
          sort_order \in {"asc", "desc"},
          page \in 1..MaxPage,
          size \in 0..MaxSize :
          GetPayments(status, sort_by, sort_order, page, size)

SpecList == Init /\ [][NextList]_vars

\* C12: the sweep is complete before the query: a payment that is not
\* 'completed' and has due_date < now is returned as 'overdue', is counted and
\* returned under the filter 'overdue', and is not returned under the filter for
\* the status it had; total counts the payments that match after the sweep.
C12_QueryAfterSweep ==
    [][req'.op = "list" =>
          /\ resp'.total =
                Cardinality({j \in DOMAIN payments' :
                    req'.status = None \/ payments'[j].payee_payment_status = req'.status[1]})
          /\ \A id \in DOMAIN payments :
                (StatusOf(id) # "completed" /\ payments[id].payee_due_date < now) =>
                    LET data == resp'.data
                        hits == {i \in DOMAIN data : data[i].id = Str(id)}
                        whole == req'.page = 1 /\ (req'.size = 0 \/ req'.size >= resp'.total)
                    IN  /\ \A i \in hits : data[i].payee_payment_status = "overdue"
                        /\ req'.status = Some("overdue") =>
                              (resp'.total >= 1 /\ (whole => hits # {}))
                        /\ (req'.status = Some(StatusOf(id)) /\ StatusOf(id) # "overdue") =>
                              hits = {}]_vars

\* a listing filtered on 'overdue' at now = 1 that returns a payment due at 0:
\* only a sweep at now = 1 can have made it 'overdue'
C12_Witness ==
    /\ req.op = "list"
    /\ req.status = Some("overdue")
    /\ now = 1
    /\ \E i \in DOMAIN resp.data :
          resp.data[i].payee_due_date = 0 /\ resp.data[i].payee_payment_status = "overdue"

\* C16: total is the number of payments matching the filter, and the page is the
\* records at positions (page-1)*size .. (page-1)*size+size-1 of the matching
\* records in the requested order, so at most size records.
C16_PageOfSortedMatches ==
    req.op = "list" =>
        LET found == {id \in DOMAIN payments :
                         req.status = None \/ StatusOf(id) = req.status[1]}
            skip == (req.page - 1) * req.size
            data == resp.data
        IN  /\ resp.total = Cardinality(found)
            /\ Len(data) <= req.size
            /\ \E order \in SortedOrders(payments, found, req.sort_by, req.sort_order) :
                  \A i \in 1..Len(order) :
                      (skip < i /\ i <= skip + req.size) <=>
                          (i - skip \in DOMAIN data /\ data[i - skip].id = Str(order[i]))

(***************************************************************************)
(* Requests served concurrently: a step is one operation on a collection,  *)
(* with the handler code that leads to it; inflight[slot] is the request   *)
(* and its local variables between two operations.                         *)
(***************************************************************************)
Idle == [op |-> "idle"]
StepReq(slot) == [op |-> "store_operation", slot |-> slot]
Returned(slot) == [inflight EXCEPT ![slot] = Idle]

\* update_payment up to the evidence lookup
UpdateCheckEvidence(slot, id_str, payment_update) ==
    /\ inflight[slot] = Idle
    /\ req' = StepReq(slot)
    /\ UNCHANGED <<payments, evidence, import_log, nextId, nextEvidence, now>>
    /\ IF ~IsValidId(id_str)
       THEN /\ resp' = [code |-> 400, detail |-> "Invalid ID format."]
            /\ UNCHANGED inflight
       ELSE IF SetsCompleted(payment_update) /\ ~CanComplete(ObjectId(id_str))
       THEN /\ resp' = [code |-> 400,
                        detail |-> "Cannot mark payment as completed without evidence."]
            /\ UNCHANGED inflight
       ELSE /\ resp' = [code |-> 0]
            /\ inflight' = [inflight EXCEPT ![slot] =
                               [op |-> "update", pc |-> "update_one",
                                payment_id |-> ObjectId(id_str),
                                payment_update |-> payment_update]]

\* update_payment: update_one and the response
UpdateWrite(slot) ==
    /\ inflight[slot].op = "update"
    /\ req' = StepReq(slot)
    /\ inflight' = Returned(slot)
    /\ UNCHANGED <<evidence, import_log, nextId, nextEvidence, now>>
    /\ LET r == inflight[slot] IN
       IF r.payment_id \notin DOMAIN payments
       THEN /\ resp' = [code |-> 404, detail |-> "Payment not found."]
            /\ UNCHANGED payments
       ELSE /\ payments' = [payments EXCEPT
                               ![r.payment_id] = SetFields(@, r.payment_update)]
            /\ resp' = [code |-> 200, detail |-> "Payment updated successfully."]

\* delete_payment up to find_one
DeleteLookup(slot, id_str) ==
    /\ inflight[slot] = Idle
    /\ req' = StepReq(slot)
    /\ UNCHANGED <<payments, evidence, import_log, nextId, nextEvidence, now>>
    /\ IF ~IsValidId(id_str)
       THEN /\ resp' = [code |-> 400, detail |-> "Invalid ID format."]
            /\ UNCHANGED inflight
       ELSE IF ObjectId(id_str) \notin DOMAIN payments
       THEN /\ resp' = [code |-> 404, detail |-> "Payment not found."]
            /\ UNCHANGED inflight
       ELSE /\ resp' = [code |-> 0]
            /\ inflight' = [inflight EXCEPT ![slot] =
                               [op |-> "delete",
                                pc |-> IF StatusOf(ObjectId(id_str)) = "completed"
                                       THEN "delete_many" ELSE "delete_one",
                                payment_id |-> ObjectId(id_str),
                                deleted_evidence_count |-> 0]]

\* delete_payment: evidence_collection.delete_many
DeleteEvidence(slot) ==
    /\ inflight[slot].op = "delete"
    /\ inflight[slot].pc = "delete_many"
    /\ req' = StepReq(slot)
    /\ resp' = [code |-> 0]
    /\ LET gone == EvidenceOf(inflight[slot].payment_id) IN
       /\ evidence' = [e \in DOMAIN evidence \ gone |-> evidence[e]]
       /\ inflight' = [inflight EXCEPT ![slot].pc = "delete_one",
                                       ![slot].deleted_evidence_count = Cardinality(gone)]
    /\ UNCHANGED <<payments, import_log, nextId, nextEvidence, now>>

\* variant: the payment kept when its evidence was removed
DeletePaymentRecord_KeepCascaded(slot) ==
    /\ inflight[slot].op = "delete"
    /\ inflight[slot].pc = "delete_one"
    /\ req' = StepReq(slot)
    /\ inflight' = Returned(slot)
    /\ UNCHANGED <<evidence, import_log, nextId, nextEvidence, now>>
    /\ LET r == inflight[slot] IN
       IF r.payment_id \notin DOMAIN payments \/ r.deleted_evidence_count > 0
       THEN /\ resp' = [code |-> 500,
                        detail |-> "Failed to delete the payment. Please try again later."]
            /\ UNCHANGED payments
       ELSE /\ payments' = [id \in DOMAIN payments \ {r.payment_id} |-> payments[id]]
            /\ resp' = [code |-> 200, detail |-> "Payment deleted successfully.",
                        deleted_evidence_count |-> r.deleted_evidence_count]

\* delete_payment: payments_collection.delete_one and the response
DeletePaymentRecord(slot) ==
    /\ inflight[slot].op = "delete"
    /\ inflight[slot].pc = "delete_one"
    /\ req' = StepReq(slot)
    /\ inflight' = Returned(slot)
    /\ UNCHANGED <<evidence, import_log, nextId, nextEvidence, now>>
    /\ LET r == inflight[slot] IN
       IF r.payment_id \notin DOMAIN payments
       THEN /\ resp' = [code |-> 500,
                        detail |-> "Failed to delete the payment. Please try again later."]
            /\ UNCHANGED payments
       ELSE /\ payments' = [id \in DOMAIN payments \ {r.payment_id} |-> payments[id]]
            /\ resp' = [code |-> 200, detail |-> "Payment deleted successfully.",
                        deleted_evidence_count |-> r.deleted_evidence_count]

\* upload_evidence up to find_one
UploadLookup(slot, id_str, content_type) ==
    /\ inflight[slot] = Idle
    /\ req' = StepReq(slot)
    /\ UNCHANGED <<payments, evidence, import_log, nextId, nextEvidence, now>>
    /\ IF content_type \notin ContentTypes
       THEN /\ resp' = [code |-> 400, detail |-> "Invalid file type."]
            /\ UNCHANGED inflight
       ELSE IF ~IsValidId(id_str)
       THEN /\ resp' = [code |-> 400, detail |-> "Invalid ID format."]
            /\ UNCHANGED inflight
       ELSE IF ObjectId(id_str) \notin DOMAIN payments
       THEN /\ resp' = [code |-> 404, detail |-> "Payment not found."]
            /\ UNCHANGED inflight
       ELSE /\ resp' = [code |-> 0]
            /\ inflight' = [inflight EXCEPT ![slot] =
                               [op |-> "upload", pc |-> "insert_one",
                                payment_id |-> ObjectId(id_str)]]

\* upload_evidence: evidence_collection.insert_one
UploadInsert(slot) ==
    /\ inflight[slot].op = "upload"
    /\ inflight[slot].pc = "insert_one"
    /\ nextEvidence <= MaxEvidence
    /\ req' = StepReq(slot)
    /\ resp' = [code |-> 0]
    /\ evidence' = InsertEvidence(inflight[slot].payment_id)
    /\ nextEvidence' = nextEvidence + 1
    /\ inflight' = [inflight EXCEPT ![slot] =
                       [op |-> "upload", pc |-> "update_one",
                        payment_id |-> inflight[slot].payment_id,
                        evidence_id |-> nextEvidence]]
    /\ UNCHANGED <<payments, import_log, nextId, now>>

\* upload_evidence: payments_collection.update_one and the response
UploadWriteStatus(slot) ==
    /\ inflight[slot].op = "upload"
    /\ inflight[slot].pc = "update_one"
    /\ req' = StepReq(slot)
    /\ resp' = [code |-> 200, evidence_id |-> inflight[slot].evidence_id]
    /\ payments' = IF inflight[slot].payment_id \in DOMAIN payments
                   THEN MarkCompleted(inflight[slot].payment_id)
                   ELSE payments
    /\ inflight' = Returned(slot)
    /\ UNCHANGED <<evidence, import_log, nextId, nextEvidence, now>>

ConcUpdates == {[payee_payment_status |-> "completed"], [payee_payment_status |-> "pending"]}

NextConc ==
    \/ CreatePayment(BasePayment(0))
    \/ \E slot \in 1..MaxInflight, id \in 1..MaxIds, payment_update \in ConcUpdates :
          UpdateCheckEvidence(slot, Str(id), payment_update)
    \/ \E slot \in 1..MaxInflight : UpdateWrite(slot)
    \/ \E slot \in 1..MaxInflight, id \in 1..MaxIds : DeleteLookup(slot, Str(id))
    \/ \E slot \in 1..MaxInflight : DeleteEvidence(slot)
    \/ \E slot \in 1..MaxInflight : DeletePaymentRecord(slot)
    \/ \E slot \in 1..MaxInflight, id \in 1..MaxIds :
          UploadLookup(slot, Str(id), "application/pdf")
    \/ \E slot \in 1..MaxInflight : UploadInsert(slot)
    \/ \E slot \in 1..MaxInflight : UploadWriteStatus(slot)

SpecConc == Init /\ [][NextConc]_vars

\* C17 as stated: with the store operations of concurrent requests interleaved,
\* no reachable state holds a 'completed' payment with zero evidence records.
C17_InterleavedCompletedHasEvidence ==
    \A id \in DOMAIN payments : ~(StatusOf(id) = "completed" /\ EvidenceOf(id) = {})

\* C17 amended: a 'completed' payment has zero evidence records only while a
\* delete_payment of that payment is between its delete_many and its delete_one.
C17_NoEvidenceOnlyInsideDelete ==
    \A id \in DOMAIN payments :
        (StatusOf(id) = "completed" /\ EvidenceOf(id) = {}) =>
            \E slot \in 1..MaxInflight :
                /\ inflight[slot].op = "delete"
                /\ inflight[slot].pc = "delete_one"
                /\ inflight[slot].payment_id = id
                /\ inflight[slot].deleted_evidence_count > 0

\* an update to 'completed' that passed its evidence check is still to write
\* while a delete of the same payment has removed the evidence
C17_Witness ==
    \E id \in DOMAIN payments, d, u \in 1..MaxInflight :
        /\ StatusOf(id) = "completed" /\ EvidenceOf(id) = {}
        /\ inflight[d].op = "delete" /\ inflight[d].pc = "delete_one"
        /\ inflight[d].payment_id = id
        /\ inflight[u].op = "update" /\ inflight[u].payment_id = id
        /\ SetsCompleted(inflight[u].payment_update)

(***************************************************************************)
(* Creation and batch import, with the monetary fields varied              *)
(***************************************************************************)
Amounts == {10000, 250}

MoneyRequests ==
    [payee_payment_status : {"pending"},
     payee_due_date : {MaxTime},
     due_amount : Amounts,
     discount_percent : {None, Some(10)},
     tax_percent : {None, Some(5)}]

\* a well-formed row, and the same with one field changed
BaseRow ==
    [payee_payment_status |-> "pending", payee_due_date |-> 0, due_amount |-> 10000,
     discount_percent |-> Some(10), tax_percent |-> Some(5)]

ImportRows ==
    {BaseRow,
     [BaseRow EXCEPT !.payee_payment_status = "completed"],
     [BaseRow EXCEPT !.payee_payment_status = "paid"],
     [BaseRow EXCEPT !.due_amount = 250],
     [BaseRow EXCEPT !.discount_percent = None]}

CsvFiles == {<< >>} \cup {<<r>> : r \in ImportRows}
                \cup {<<r1, r2>> : r1 \in ImportRows, r2 \in ImportRows}

NextBatch ==
    \/ \E rows \in CsvFiles : NormalizeAndSave("payment_information.csv", rows)
    \/ \E payment \in MoneyRequests : CreatePayment(payment)

SpecBatch == Init /\ [][NextBatch]_vars

C19_ImportOncePerFile ==
    [][/\ import_log \subseteq import_log'
       /\ req'.op = "import" =>
             LET f == req'.csv_file_path
                 rows == req'.rows
                 fails == \E i \in 1..Len(rows) :
                             \/ rows[i].payee_payment_status
                                   \notin {"pending", "due_now", "overdue", "completed"}
                             \/ rows[i].discount_percent = None
                             \/ rows[i].tax_percent = None
             IN  /\ f \in import_log => store' = store
                 /\ fails => store' = store
                 /\ payments' # payments =>
                       (f \notin import_log /\ import_log' = import_log \cup {f})]_vars

\* a run on a file that an earlier run imported and logged
C19_Witness ==
    /\ req.op = "import"
    /\ req.csv_file_path \in import_log
    /\ resp.detail = "already processed"
    /\ Len(req.rows) > 0
    /\ DOMAIN payments # {}
=============================================================================
